---- MODULE Spec2Model ----
(***************************************************************************)
(* Model of the per-asset lot ledger of crypto-taxes                       *)
(* (accounting/accounting.go): LotHistory.Buy, LotHistory.Sell and the     *)
(* aggregations Quantity, TotalCost and AvgCost.                           *)
(*                                                                         *)
(* decimal.Decimal values are modelled by integers (whole units and whole  *)
(* dollars); Mul, Add, Sub and Cmp are the integer operations.  The one    *)
(* inexact decimal operation, Div, rounds to DivisionPrecision digits; a   *)
(* value produced by Div is kept as an integer count of                    *)
(* 10^-DivisionPrecision units.  time.Time values are modelled by the      *)
(* integers 1..MaxDate.                                                    *)
(***************************************************************************)
EXTENDS Integers, Sequences, FiniteSets, TLC

VARIABLES hist, call, lastAppended, Holdings, pt,
          transactions, replay, reporter, mainLoop, closed, output

lotVars == <<hist, call, lastAppended>>

accountVars == <<Holdings, pt>>

cliVars == <<transactions, replay, reporter, mainLoop, closed, output>>

vars == <<hist, call, lastAppended, Holdings, pt,
          transactions, replay, reporter, mainLoop, closed, output>>

\* ---------------------------------------------------------------- bounds
MaxLots == 2        \* lots held at once by the LotHistory
MaxDate == 2        \* time.Time values are 1..MaxDate
MaxQty == 3         \* largest quantity of a bought lot
MaxSpot == 2        \* largest spot price
MaxSell == 4        \* largest quantity passed to Sell
DivisionPrecision == 2  \* digits kept by Decimal.Div (16 in the library)
MaxHeld == 2        \* lots held at once by all LotHistories of an Account
MaxTxQty == 2       \* largest Quantity of a Transaction given to an Account
MaxTxSpot == 1      \* largest Spot of a Transaction given to an Account
MaxTx == 3           \* most transactions in the file the command line replays

\* the values passed to Buy and Sell; quantities and spots include the
\* non-positive values -1 and 0 that the two functions must reject
Dates == 1..MaxDate
BuyQtys == -1..MaxQty
Spots == -1..MaxSpot
SellQtys == -1..MaxSell

\* ------------------------------------------------------------ decimal
RECURSIVE Pow10(_)
Pow10(n) == IF n = 0 THEN 1 ELSE 10 * Pow10(n - 1)

\* one unit, counted in 10^-DivisionPrecision
DivScale == Pow10(DivisionPrecision)

\* Div truncating the quotient instead of rounding it
DecimalDivMutTrunc(num, denom) == (num * DivScale) \div denom

\* Decimal.Div of two positive decimals: the quotient rounded half up at
\* DivisionPrecision digits, as a count of 10^-DivisionPrecision
DecimalDiv(num, denom) == (2 * num * DivScale + denom) \div (2 * denom)

\* -------------------------------------------------------------- errors
NoErr == "nil"
NegativeQuantityErr == "Quantity must be > 0"
NegativeSpotErr == "Spot price must be > 0"
OutOfOrderErr == "Transactions must be in chronological order"
NoMoreLotsErr == "No more lots available"

\* ---------------------------------------------------------------- Lot
Lot(d, q, s) == [PurchaseDate |-> d, Quantity |-> q, Spot |-> s]

\* the nil *Lot returned by peek and tail on an empty slice
NilLot == Lot(0, 0, 0)

LotTotalCost(l) == l.Quantity * l.Spot

\* --------------------------------------------------------- LotHistory
LotHistory(asset, lots) == [Asset |-> asset, Lots |-> lots]

peek(h) == IF Len(h.Lots) = 0 THEN NilLot ELSE h.Lots[1]

tail(h) == IF Len(h.Lots) = 0 THEN NilLot ELSE h.Lots[Len(h.Lots)]

\* pop is only called by Sell after peek returned a lot, so its error
\* return (empty slice) is never taken there
pop(h) == [lot |-> h.Lots[1], h |-> [h EXCEPT !.Lots = Tail(@)]]

RECURSIVE SumQuantity(_)
SumQuantity(lots) ==
    IF lots = <<>> THEN 0 ELSE lots[1].Quantity + SumQuantity(Tail(lots))

RECURSIVE SumCost(_)
SumCost(lots) ==
    IF lots = <<>> THEN 0
    ELSE lots[1].Spot * lots[1].Quantity + SumCost(Tail(lots))

Quantity(h) == SumQuantity(h.Lots)

TotalCost(h) == SumCost(h.Lots)

\* AvgCost dividing by the number of lots instead of the quantity held
AvgCostMutLen(h) ==
    IF Len(h.Lots) = 0 THEN 0
    ELSE DecimalDiv(SumCost(h.Lots), Len(h.Lots))

\* denom == decimal.Zero holds exactly when the loop never ran: every Add
\* allocates a fresh big.Int, so the struct comparison is an identity test
AvgCost(h) ==
    IF Len(h.Lots) = 0 THEN 0
    ELSE DecimalDiv(SumCost(h.Lots), SumQuantity(h.Lots))

\* ---------------------------------------------------------------- Buy
\* Buy with its quantity guard written < instead of <=
BuyMutLt(h, l) ==
    IF l.Quantity < 0 THEN [h |-> h, err |-> NegativeQuantityErr]
    ELSE IF l.Spot <= 0 THEN [h |-> h, err |-> NegativeSpotErr]
    ELSE IF Len(h.Lots) > 0 /\ l.PurchaseDate < tail(h).PurchaseDate
         THEN [h |-> h, err |-> OutOfOrderErr]
    ELSE [h |-> [h EXCEPT !.Lots = Append(@, l)], err |-> NoErr]

\* Buy refusing a lot dated the same as the tail lot
BuyMutEqualDate(h, l) ==
    IF l.Quantity <= 0 THEN [h |-> h, err |-> NegativeQuantityErr]
    ELSE IF l.Spot <= 0 THEN [h |-> h, err |-> NegativeSpotErr]
    ELSE IF Len(h.Lots) > 0 /\ l.PurchaseDate <= tail(h).PurchaseDate
         THEN [h |-> h, err |-> OutOfOrderErr]
    ELSE [h |-> [h EXCEPT !.Lots = Append(@, l)], err |-> NoErr]

\* Buy with the operands of its date comparison swapped
BuyMutSwapped(h, l) ==
    IF l.Quantity <= 0 THEN [h |-> h, err |-> NegativeQuantityErr]
    ELSE IF l.Spot <= 0 THEN [h |-> h, err |-> NegativeSpotErr]
    ELSE IF Len(h.Lots) > 0 /\ tail(h).PurchaseDate < l.PurchaseDate
         THEN [h |-> h, err |-> OutOfOrderErr]
    ELSE [h |-> [h EXCEPT !.Lots = Append(@, l)], err |-> NoErr]

\* result of Buy: the LotHistory afterwards and the returned error
Buy(h, l) ==
    IF l.Quantity <= 0 THEN [h |-> h, err |-> NegativeQuantityErr]
    ELSE IF l.Spot <= 0 THEN [h |-> h, err |-> NegativeSpotErr]
    ELSE IF Len(h.Lots) > 0 /\ l.PurchaseDate < tail(h).PurchaseDate
         THEN [h |-> h, err |-> OutOfOrderErr]
    ELSE [h |-> [h EXCEPT !.Lots = Append(@, l)], err |-> NoErr]

\* --------------------------------------------------------------- Sell
Sale(asset, saleDate, purchaseDate, quantity, avgCost, fifoCost, proceeds) ==
    [Asset |-> asset, SaleDate |-> saleDate, PurchaseDate |-> purchaseDate,
     Quantity |-> quantity, AvgCost |-> avgCost, FifoCost |-> fifoCost,
     Proceeds |-> proceeds]

\* case -1 adding the units to the head lot instead of taking them
ReduceHeadMutAdd(h, remaining) ==
    [h EXCEPT !.Lots[1].Quantity = @ + remaining]

\* case -1 removing the head lot instead of reducing it
ReduceHeadMutPop(h, remaining) == [h EXCEPT !.Lots = Tail(@)]

\* the head lot after remaining units were taken from it (case -1)
ReduceHead(h, remaining) ==
    [h EXCEPT !.Lots[1].Quantity = @ - remaining]

\* the pass taking case -1 also when remaining equals the lot's quantity
SellIterMutLe(h, remaining, quantity, spot, date) ==
    LET lot == peek(h)
        avgCost == AvgCost(h)
    IN  IF remaining <= lot.Quantity
        THEN [h |-> ReduceHead(h, remaining),
              remaining |-> 0,
              sale |-> Sale(h.Asset, date, lot.PurchaseDate,
                            quantity - 0,
                            avgCost * remaining,
                            remaining * lot.Spot,
                            quantity * spot)]
        ELSE LET p == pop(h)
                 rem == remaining - LotTotalCost(p.lot)
             IN  [h |-> p.h,
                  remaining |-> rem,
                  sale |-> Sale(h.Asset, date, lot.PurchaseDate,
                                quantity - rem,
                                p.lot.Quantity * avgCost,
                                LotTotalCost(p.lot),
                                quantity * spot)]

\* the pass taking the PurchaseDate of the Sale from the lot at the tail
SellIterMutTailDate(h, remaining, quantity, spot, date) ==
    LET lot == peek(h)
        avgCost == AvgCost(h)
    IN  IF remaining < lot.Quantity
        THEN [h |-> ReduceHead(h, remaining),
              remaining |-> 0,
              sale |-> Sale(h.Asset, date, tail(h).PurchaseDate,
                            quantity - 0,
                            avgCost * remaining,
                            remaining * lot.Spot,
                            quantity * spot)]
        ELSE LET p == pop(h)
                 rem == remaining - LotTotalCost(p.lot)
             IN  [h |-> p.h,
                  remaining |-> rem,
                  sale |-> Sale(h.Asset, date, tail(h).PurchaseDate,
                                quantity - rem,
                                p.lot.Quantity * avgCost,
                                LotTotalCost(p.lot),
                                quantity * spot)]

\* the pass leaving remaining as it was in case -1
SellIterMutKeepRemaining(h, remaining, quantity, spot, date) ==
    LET lot == peek(h)
        avgCost == AvgCost(h)
    IN  IF remaining < lot.Quantity
        THEN [h |-> ReduceHead(h, remaining),
              remaining |-> remaining,
              sale |-> Sale(h.Asset, date, lot.PurchaseDate,
                            quantity - remaining,
                            avgCost * remaining,
                            remaining * lot.Spot,
                            quantity * spot)]
        ELSE LET p == pop(h)
                 rem == remaining - LotTotalCost(p.lot)
             IN  [h |-> p.h,
                  remaining |-> rem,
                  sale |-> Sale(h.Asset, date, lot.PurchaseDate,
                                quantity - rem,
                                p.lot.Quantity * avgCost,
                                LotTotalCost(p.lot),
                                quantity * spot)]

\* the pass computing the average cost after the head lot was changed
SellIterMutAvgAfter(h, remaining, quantity, spot, date) ==
    LET lot == peek(h)
        avgCost == AvgCost(h)
    IN  IF remaining < lot.Quantity
        THEN [h |-> ReduceHead(h, remaining),
              remaining |-> 0,
              sale |-> Sale(h.Asset, date, lot.PurchaseDate,
                            quantity - 0,
                            AvgCost(ReduceHead(h, remaining)) * remaining,
                            remaining * lot.Spot,
                            quantity * spot)]
        ELSE LET p == pop(h)
                 rem == remaining - LotTotalCost(p.lot)
             IN  [h |-> p.h,
                  remaining |-> rem,
                  sale |-> Sale(h.Asset, date, lot.PurchaseDate,
                                quantity - rem,
                                p.lot.Quantity * AvgCost(p.h),
                                LotTotalCost(p.lot),
                                quantity * spot)]

\* the pass putting the full sell quantity on every Sale
SellIterMutFullQty(h, remaining, quantity, spot, date) ==
    LET lot == peek(h)
        avgCost == AvgCost(h)
    IN  IF remaining < lot.Quantity
        THEN [h |-> ReduceHead(h, remaining),
              remaining |-> 0,
              sale |-> Sale(h.Asset, date, lot.PurchaseDate,
                            quantity - 0,
                            avgCost * remaining,
                            remaining * lot.Spot,
                            quantity * spot)]
        ELSE LET p == pop(h)
                 rem == remaining - LotTotalCost(p.lot)
             IN  [h |-> p.h,
                  remaining |-> rem,
                  sale |-> Sale(h.Asset, date, lot.PurchaseDate,
                                quantity,
                                p.lot.Quantity * avgCost,
                                LotTotalCost(p.lot),
                                quantity * spot)]

\* the pass decreasing remaining by the quantity of the removed lot
SellIterMutSubQty(h, remaining, quantity, spot, date) ==
    LET lot == peek(h)
        avgCost == AvgCost(h)
    IN  IF remaining < lot.Quantity
        THEN [h |-> ReduceHead(h, remaining),
              remaining |-> 0,
              sale |-> Sale(h.Asset, date, lot.PurchaseDate,
                            quantity - 0,
                            avgCost * remaining,
                            remaining * lot.Spot,
                            quantity * spot)]
        ELSE LET p == pop(h)
                 rem == remaining - p.lot.Quantity
             IN  [h |-> p.h,
                  remaining |-> rem,
                  sale |-> Sale(h.Asset, date, lot.PurchaseDate,
                                quantity - rem,
                                p.lot.Quantity * avgCost,
                                LotTotalCost(p.lot),
                                quantity * spot)]

\* One pass of the body of Sell's loop when peek returned a lot: the switch
\* on remaining.Cmp(lot.Quantity) and the Sale built after it.  The result
\* is the LotHistory, the new value of remaining and the Sale sent.
SellIter(h, remaining, quantity, spot, date) ==
    LET lot == peek(h)
        avgCost == AvgCost(h)
    IN  IF remaining < lot.Quantity
        THEN [h |-> ReduceHead(h, remaining),
              remaining |-> 0,
              sale |-> Sale(h.Asset, date, lot.PurchaseDate,
                            quantity - 0,
                            avgCost * remaining,
                            remaining * lot.Spot,
                            quantity * spot)]
        ELSE LET p == pop(h)
                 rem == remaining - LotTotalCost(p.lot)
             IN  [h |-> p.h,
                  remaining |-> rem,
                  sale |-> Sale(h.Asset, date, lot.PurchaseDate,
                                quantity - rem,
                                p.lot.Quantity * avgCost,
                                LotTotalCost(p.lot),
                                quantity * spot)]

\* the loop giving back no Sale when it fails
RECURSIVE SellLoopMutWithdraw(_, _, _, _, _, _)
SellLoopMutWithdraw(h, remaining, quantity, spot, date, sales) ==
    IF peek(h) = NilLot
    THEN [h |-> h, err |-> NoMoreLotsErr, sales |-> <<>>,
          remaining |-> remaining]
    ELSE LET it == SellIter(h, remaining, quantity, spot, date)
         IN  IF it.remaining > 0
             THEN SellLoopMutWithdraw(it.h, it.remaining, quantity, spot,
                                      date, Append(sales, it.sale))
             ELSE [h |-> it.h, err |-> NoErr,
                   sales |-> Append(sales, it.sale),
                   remaining |-> it.remaining]

\* the loop returning nil when no lot is left
RECURSIVE SellLoopMutNoErr(_, _, _, _, _, _)
SellLoopMutNoErr(h, remaining, quantity, spot, date, sales) ==
    IF peek(h) = NilLot
    THEN [h |-> h, err |-> NoErr, sales |-> sales,
          remaining |-> remaining]
    ELSE LET it == SellIter(h, remaining, quantity, spot, date)
         IN  IF it.remaining > 0
             THEN SellLoopMutNoErr(it.h, it.remaining, quantity, spot, date,
                                   Append(sales, it.sale))
             ELSE [h |-> it.h, err |-> NoErr,
                   sales |-> Append(sales, it.sale),
                   remaining |-> it.remaining]

\* Sell's do-while loop: the body runs, then again while remaining > 0.
\* sales is the sequence of Sales sent on the channel so far.
RECURSIVE SellLoop(_, _, _, _, _, _)
SellLoop(h, remaining, quantity, spot, date, sales) ==
    IF peek(h) = NilLot
    THEN [h |-> h, err |-> NoMoreLotsErr, sales |-> sales,
          remaining |-> remaining]
    ELSE LET it == SellIter(h, remaining, quantity, spot, date)
         IN  IF it.remaining > 0
             THEN SellLoop(it.h, it.remaining, quantity, spot, date,
                           Append(sales, it.sale))
             ELSE [h |-> it.h, err |-> NoErr,
                   sales |-> Append(sales, it.sale),
                   remaining |-> it.remaining]

\* Sell with its spot guard written < instead of <=
SellMutSpotLt(h, quantity, spot, date) ==
    IF quantity <= 0
    THEN [h |-> h, err |-> NegativeQuantityErr, sales |-> <<>>,
          remaining |-> quantity]
    ELSE IF spot < 0
    THEN [h |-> h, err |-> NegativeSpotErr, sales |-> <<>>,
          remaining |-> quantity]
    ELSE SellLoop(h, quantity, quantity, spot, date, <<>>)

\* result of Sell: the LotHistory afterwards, the returned error, the Sales
\* sent on the sales channel in order, and the final value of remaining
Sell(h, quantity, spot, date) ==
    IF quantity <= 0
    THEN [h |-> h, err |-> NegativeQuantityErr, sales |-> <<>>,
          remaining |-> quantity]
    ELSE IF spot <= 0
    THEN [h |-> h, err |-> NegativeSpotErr, sales |-> <<>>,
          remaining |-> quantity]
    ELSE SellLoop(h, quantity, quantity, spot, date, <<>>)

\* ------------------------------------------------------------ Account
BUY == 0
SELL == 1

Transaction(timestamp, action, asset, quantity, spot) ==
    [Timestamp |-> timestamp, Action |-> action, Asset |-> asset,
     Quantity |-> quantity, Spot |-> spot]

ToLot(t) == Lot(t.Timestamp, t.Quantity, t.Spot)

\* the Holdings map of NewAccount: no asset
NewAccount == [asset \in {} |-> LotHistory(asset, <<>>)]

\* the map keeping one LotHistory for all of its assets
StoreMutShared(holdings, h) ==
    [asset \in DOMAIN holdings \cup {h.Asset} |-> h]

\* the map dropping an asset whose LotHistory holds no lot
StoreMutDropEmpty(holdings, h) ==
    [asset \in (DOMAIN holdings \cup {h.Asset})
                 \ (IF h.Lots = <<>> THEN {h.Asset} ELSE {}) |->
        IF asset = h.Asset THEN h ELSE holdings[asset]]

\* the Holdings map with h stored under h.Asset; a map holds pointers, so
\* what Buy and Sell do to the LotHistory is seen through the map
Store(holdings, h) ==
    [asset \in DOMAIN holdings \cup {h.Asset} |->
        IF asset = h.Asset THEN h ELSE holdings[asset]]

\* result of ProcessTransaction: the Holdings afterwards, the returned error
\* and the Sales sent on the sales channel
ProcessTransaction(holdings, t) ==
    LET holding == IF t.Asset \in DOMAIN holdings
                   THEN holdings[t.Asset]
                   ELSE LotHistory(t.Asset, <<>>)
    IN  IF t.Action = BUY
        THEN LET r == Buy(holding, ToLot(t))
             IN  [Holdings |-> Store(holdings, r.h), err |-> r.err,
                  sales |-> <<>>]
        ELSE IF t.Action = SELL
        THEN LET r == Sell(holding, t.Quantity, t.Spot, t.Timestamp)
             IN  [Holdings |-> Store(holdings, r.h), err |-> r.err,
                  sales |-> r.sales]
        ELSE [Holdings |-> Store(holdings, holding), err |-> NoErr,
              sales |-> <<>>]

\* ------------------------------------------------------ state machine
\* hist is one LotHistory, as the tests construct it.  call records the call
\* in progress at the moment it returns: its arguments, the LotHistory it
\* was made on, the error it returns and the Sales it sent; between calls it
\* is NoCall.  lastAppended is the PurchaseDate of the last lot that Buy
\* appended (0 before the first).  call.agg holds what Quantity, TotalCost
\* and AvgCost return when the call is a reading of the three aggregations.
Asset0 == "BTC"

NoAgg == [Quantity |-> 0, TotalCost |-> 0, AvgCost |-> 0]

NoCall ==
    [op |-> "none", date |-> 0, quantity |-> 0, spot |-> 0,
     pre |-> LotHistory(Asset0, <<>>), preLast |-> 0,
     err |-> NoErr, sales |-> <<>>, remaining |-> 0, agg |-> NoAgg]

\* Holdings is the Holdings map of one Account.  pt records the call of
\* ProcessTransaction in progress at the moment it returns: the Transaction,
\* the Holdings it was made on, the error it returns and the Sales it sent;
\* between calls it is NoPt.
NoPt ==
    [op |-> "none", t |-> Transaction(0, BUY, Asset0, 0, 0),
     pre |-> NewAccount, err |-> NoErr, sales |-> <<>>]

\* the command line program before its goroutines start: the replay
\* goroutine at the head of its range loop, the goroutine that reports bad
\* transactions and main both about to receive, both channels open, nothing
\* printed
NoSale == Sale(Asset0, 0, 0, 0, 0, 0, 0)
ReplayStart == [pc |-> "range", i |-> 1, remaining |-> 0, sale |-> NoSale]
ReporterStart == [pc |-> "recv", t |-> 0]
MainStart == [pc |-> "recv", s |-> NoSale]
NoneClosed == [sales |-> FALSE, badTransactions |-> FALSE]
NoOutput ==
    [processed |-> <<>>, failed |-> <<>>, produced |-> <<>>, sent |-> <<>>,
     errors |-> <<>>, sales |-> <<>>, report |-> [asset \in {} |-> 0]]

Init ==
    /\ hist = LotHistory(Asset0, <<>>)
    /\ call = NoCall
    /\ lastAppended = 0
    /\ Holdings = NewAccount
    /\ pt = NoPt
    /\ transactions = <<>>
    /\ replay = ReplayStart
    /\ reporter = ReporterStart
    /\ mainLoop = MainStart
    /\ closed = NoneClosed
    /\ output = NoOutput

BuyCall ==
    \E d \in Dates, q \in BuyQtys, s \in Spots :
        LET r == Buy(hist, Lot(d, q, s))
        IN  /\ call = NoCall
            /\ Len(r.h.Lots) <= MaxLots
            /\ hist' = r.h
            /\ call' = [op |-> "Buy", date |-> d, quantity |-> q, spot |-> s,
                        pre |-> hist, preLast |-> lastAppended,
                        err |-> r.err, sales |-> <<>>, remaining |-> 0,
                        agg |-> NoAgg]
            /\ lastAppended' = IF r.err = NoErr THEN d ELSE lastAppended
            /\ UNCHANGED accountVars
            /\ UNCHANGED cliVars

SellCall ==
    \E d \in Dates, q \in SellQtys, s \in Spots :
        LET r == Sell(hist, q, s, d)
        IN  /\ call = NoCall
            /\ hist' = r.h
            /\ call' = [op |-> "Sell", date |-> d, quantity |-> q, spot |-> s,
                        pre |-> hist, preLast |-> lastAppended,
                        err |-> r.err, sales |-> r.sales,
                        remaining |-> r.remaining, agg |-> NoAgg]
            /\ UNCHANGED <<lastAppended, Holdings, pt>>
            /\ UNCHANGED cliVars

\* Quantity(), TotalCost() and AvgCost() read on the LotHistory
AggregateCall ==
    /\ call = NoCall
    /\ call' = [NoCall EXCEPT !.op = "Aggregate", !.pre = hist,
                               !.preLast = lastAppended,
                               !.agg = [Quantity |-> Quantity(hist),
                                        TotalCost |-> TotalCost(hist),
                                        AvgCost |-> AvgCost(hist)]]
    /\ UNCHANGED <<hist, lastAppended, Holdings, pt>>
    /\ UNCHANGED cliVars

\* the call has returned to its caller, which makes the next call
Return ==
    /\ call # NoCall
    /\ call' = NoCall
    /\ UNCHANGED <<hist, lastAppended, Holdings, pt>>
    /\ UNCHANGED cliVars

Next == BuyCall \/ SellCall \/ AggregateCall \/ Return

Spec == Init /\ [][Next]_vars

\* ------------------------------------------- state machine: Account
\* the Transactions given to ProcessTransaction: two assets, both actions,
\* quantities and spots from 0, which Buy and Sell must reject
TxAssets == {"BTC", "ETH"}
TxQtys == 0..MaxTxQty
TxSpots == 0..MaxTxSpot

Transactions ==
    { Transaction(d, a, asset, q, s) :
        d \in Dates, a \in {BUY, SELL}, asset \in TxAssets,
        q \in TxQtys, s \in TxSpots }

RECURSIVE SumLots(_, _)
SumLots(holdings, assets) ==
    IF assets = {} THEN 0
    ELSE LET asset == CHOOSE x \in assets : TRUE
         IN  Len(holdings[asset].Lots) + SumLots(holdings, assets \ {asset})

\* number of lots held by all LotHistories of the map
HeldLots(holdings) == SumLots(holdings, DOMAIN holdings)

ProcessTransactionCall ==
    \E t \in Transactions :
        LET r == ProcessTransaction(Holdings, t)
        IN  /\ pt = NoPt
            /\ HeldLots(r.Holdings) <= MaxHeld
            /\ Holdings' = r.Holdings
            /\ pt' = [op |-> "ProcessTransaction", t |-> t,
                      pre |-> Holdings, err |-> r.err, sales |-> r.sales]
            /\ UNCHANGED lotVars
            /\ UNCHANGED cliVars

\* the call has returned to its caller, which makes the next call
ReturnPt ==
    /\ pt # NoPt
    /\ pt' = NoPt
    /\ UNCHANGED <<Holdings, hist, call, lastAppended>>
    /\ UNCHANGED cliVars

NextAccount == ProcessTransactionCall \/ ReturnPt

SpecAccount == Init /\ [][NextAccount]_vars

\* ------------------------------------- state machine: the command line
\* The program of cli.go: main starts a goroutine that replays the sorted
\* transactions through the Account, a goroutine that prints the bad
\* transactions, and itself prints the Sales and then the Report.  Both
\* channels are unbuffered, so a send and its receive are one step.
\* The file holds one asset at one spot price: the steps of the pipeline
\* depend on how many Sales a sell sends and on whether it fails, which the
\* quantities decide.  sort.Slice leaves the transactions in non-decreasing
\* time order, here the time of a transaction is its index.
CliAssets == {"BTC"}
CliQtys == 1..MaxTxQty
CliSpots == {1}

\* what one line of the file says: action, asset, quantity, spot
CliLines == {BUY, SELL} \X CliAssets \X CliQtys \X CliSpots

SortedFiles ==
    UNION { { [i \in 1..n |->
                 Transaction(i, f[i][1], f[i][2], f[i][3], f[i][4])] :
              f \in [1..n -> CliLines] } : n \in 0..MaxTx }

InitCli ==
    /\ hist = LotHistory(Asset0, <<>>)
    /\ call = NoCall
    /\ lastAppended = 0
    /\ Holdings = NewAccount
    /\ pt = NoPt
    /\ transactions \in SortedFiles
    /\ replay = ReplayStart
    /\ reporter = ReporterStart
    /\ mainLoop = MainStart
    /\ closed = NoneClosed
    /\ output = NoOutput

\* the two guards of Sell, which return before its loop
SellGuard(quantity, spot) ==
    IF quantity <= 0 THEN NegativeQuantityErr
    ELSE IF spot <= 0 THEN NegativeSpotErr
    ELSE NoErr

\* the holding ProcessTransaction works on, created when the asset is new
HoldingOf(holdings, asset) ==
    IF asset \in DOMAIN holdings THEN holdings[asset]
    ELSE LotHistory(asset, <<>>)

\* the loop leaving at the first bad transaction instead of going on
AfterBadMutBreak(r) == [r EXCEPT !.pc = "closeBad"]

\* `continue` after the bad transaction was sent: on to the next transaction
AfterBad(r) == [r EXCEPT !.pc = "range", !.i = @ + 1]

\* ProcessTransaction returned nil: on to the next transaction
AfterGood(r) == [r EXCEPT !.pc = "range", !.i = @ + 1]

\* the replay goroutine takes the next transaction and runs
\* ProcessTransaction up to its return or to the loop of Sell; after the
\* last transaction it goes on to its deferred closes
ReplayRange ==
    /\ replay.pc = "range"
    /\ mainLoop.pc # "exited"
    /\ IF replay.i > Len(transactions)
       THEN /\ replay' = [replay EXCEPT !.pc = "closeBad"]
            /\ UNCHANGED <<Holdings, output>>
       ELSE LET t == transactions[replay.i]
                seen == [output EXCEPT !.processed = Append(@, replay.i)]
                bad == [seen EXCEPT !.failed = Append(@, replay.i)]
            IN  IF t.Action = SELL
                THEN /\ Holdings' = Store(Holdings, HoldingOf(Holdings, t.Asset))
                     /\ IF SellGuard(t.Quantity, t.Spot) # NoErr
                        THEN /\ replay' = [replay EXCEPT !.pc = "sendBad"]
                             /\ output' = bad
                        ELSE /\ replay' = [replay EXCEPT !.pc = "sellPass",
                                               !.remaining = t.Quantity]
                             /\ output' = seen
                ELSE LET r == ProcessTransaction(Holdings, t)
                     IN  /\ Holdings' = r.Holdings
                         /\ IF r.err # NoErr
                            THEN /\ replay' = [replay EXCEPT !.pc = "sendBad"]
                                 /\ output' = bad
                            ELSE /\ replay' = AfterGood(replay)
                                 /\ output' = seen
    /\ UNCHANGED <<lotVars, pt, transactions, reporter, mainLoop, closed>>

\* one pass of the loop of Sell up to its send: no lot left is the error
\* return, otherwise the head lot is reduced or removed and a Sale built
ReplayPass ==
    /\ replay.pc = "sellPass"
    /\ mainLoop.pc # "exited"
    /\ LET t == transactions[replay.i]
           holding == Holdings[t.Asset]
       IN  IF peek(holding) = NilLot
           THEN /\ replay' = [replay EXCEPT !.pc = "sendBad"]
                /\ output' = [output EXCEPT !.failed = Append(@, replay.i)]
                /\ UNCHANGED Holdings
           ELSE LET it == SellIter(holding, replay.remaining, t.Quantity,
                                   t.Spot, t.Timestamp)
                IN  /\ Holdings' = Store(Holdings, it.h)
                    /\ replay' = [replay EXCEPT !.pc = "sendSale",
                                      !.remaining = it.remaining,
                                      !.sale = it.sale]
                    /\ output' = [output EXCEPT
                                      !.produced = Append(@, it.sale)]
    /\ UNCHANGED <<lotVars, pt, transactions, reporter, mainLoop, closed>>

\* the send on a buffered sales channel: it returns with no receiver there
SendSaleMutBuffered ==
    /\ replay.pc = "sendSale"
    /\ mainLoop.pc # "exited"
    /\ replay' = IF replay.remaining > 0
                 THEN [replay EXCEPT !.pc = "sellPass"]
                 ELSE AfterGood(replay)
    /\ UNCHANGED <<lotVars, accountVars, transactions, reporter, mainLoop,
                   closed, output>>

\* sales <- sale meets main's receive; Sell loops while remaining > 0 and
\* returns nil otherwise
SendSale ==
    /\ replay.pc = "sendSale"
    /\ mainLoop.pc = "recv"
    /\ mainLoop' = [pc |-> "print", s |-> replay.sale]
    /\ output' = [output EXCEPT !.sent = Append(@, replay.sale)]
    /\ replay' = IF replay.remaining > 0
                 THEN [replay EXCEPT !.pc = "sellPass"]
                 ELSE AfterGood(replay)
    /\ UNCHANGED <<lotVars, accountVars, transactions, reporter, closed>>

\* badTransactions <- t meets the reporting goroutine's receive
SendBad ==
    /\ replay.pc = "sendBad"
    /\ reporter.pc = "recv"
    /\ mainLoop.pc # "exited"
    /\ reporter' = [pc |-> "print", t |-> replay.i]
    /\ replay' = AfterBad(replay)
    /\ UNCHANGED <<lotVars, accountVars, transactions, mainLoop, closed, output>>

\* the deferred calls run last in, first out: close(badTransactions) ...
CloseBad ==
    /\ replay.pc = "closeBad"
    /\ mainLoop.pc # "exited"
    /\ closed' = [closed EXCEPT !.badTransactions = TRUE]
    /\ replay' = [replay EXCEPT !.pc = "closeSales"]
    /\ UNCHANGED <<lotVars, accountVars, transactions, reporter, mainLoop, output>>

\* the replay goroutine ending without close(sales)
CloseSalesMutNoClose ==
    /\ replay.pc = "closeSales"
    /\ mainLoop.pc # "exited"
    /\ replay' = [replay EXCEPT !.pc = "done"]
    /\ UNCHANGED <<lotVars, accountVars, transactions, reporter, mainLoop,
                   closed, output>>

\* ... then close(sales)
CloseSales ==
    /\ replay.pc = "closeSales"
    /\ mainLoop.pc # "exited"
    /\ closed' = [closed EXCEPT !.sales = TRUE]
    /\ replay' = [replay EXCEPT !.pc = "done"]
    /\ UNCHANGED <<lotVars, accountVars, transactions, reporter, mainLoop, output>>

\* the reporting goroutine prints the transaction it received
ReporterPrint ==
    /\ reporter.pc = "print"
    /\ mainLoop.pc # "exited"
    /\ output' = [output EXCEPT !.errors = Append(@, reporter.t)]
    /\ reporter' = [reporter EXCEPT !.pc = "recv"]
    /\ UNCHANGED <<lotVars, accountVars, transactions, replay, mainLoop, closed>>

\* its range loop ends on the closed channel
ReporterEnd ==
    /\ reporter.pc = "recv"
    /\ closed.badTransactions
    /\ mainLoop.pc # "exited"
    /\ reporter' = [reporter EXCEPT !.pc = "done"]
    /\ UNCHANGED <<lotVars, accountVars, transactions, replay, mainLoop, closed, output>>

\* main prints the Sale it received
MainPrint ==
    /\ mainLoop.pc = "print"
    /\ output' = [output EXCEPT !.sales = Append(@, mainLoop.s)]
    /\ mainLoop' = [mainLoop EXCEPT !.pc = "recv"]
    /\ UNCHANGED <<lotVars, accountVars, transactions, replay, reporter, closed>>

\* its range loop ends on the closed channel
MainEnd ==
    /\ mainLoop.pc = "recv"
    /\ closed.sales
    /\ mainLoop' = [mainLoop EXCEPT !.pc = "report"]
    /\ UNCHANGED <<lotVars, accountVars, transactions, replay, reporter, closed, output>>

\* the quantity held of every asset, as Report lists it
Report(holdings) == [asset \in DOMAIN holdings |-> Quantity(holdings[asset])]

\* main prints the Report and returns, which ends the program and every
\* goroutine with it
MainReport ==
    /\ mainLoop.pc = "report"
    /\ output' = [output EXCEPT !.report = Report(Holdings)]
    /\ mainLoop' = [mainLoop EXCEPT !.pc = "exited"]
    /\ UNCHANGED <<lotVars, accountVars, transactions, replay, reporter, closed>>

NextCli ==
    \/ ReplayRange \/ ReplayPass \/ SendSale \/ SendBad
    \/ CloseBad \/ CloseSales
    \/ ReporterPrint \/ ReporterEnd
    \/ MainPrint \/ MainEnd \/ MainReport

\* the Go scheduler runs a goroutine that can run: some enabled step is
\* eventually taken
SpecCli == InitCli /\ [][NextCli]_vars /\ WF_vars(NextCli)

\* ------------------------------------------ state machine: the parser
\* ReadStandardFile turns every row after the header into a Transaction,
\* which the command line then gives to ProcessTransaction.  A row is taken
\* with its time and decimals already read: record[0], record[3] and
\* record[4] as values, record[1] and record[2] as the strings they are.
TransactionTypeToAction ==
    [type \in {"Buy", "Sell", "Paid for an order", "Send", "Convert",
               "Coinbase Earn"} |->
        IF type \in {"Buy", "Coinbase Earn"} THEN BUY ELSE SELL]

\* the zero value of Action, which a Go map returns for a missing key
ZeroAction == 0

\* an unknown type giving an Action that is neither BUY nor SELL
LookupActionMutUnknown(type) ==
    IF type \in DOMAIN TransactionTypeToAction
    THEN TransactionTypeToAction[type]
    ELSE 2

\* a.TransactionTypeToAction[record[1]]
LookupAction(type) ==
    IF type \in DOMAIN TransactionTypeToAction
    THEN TransactionTypeToAction[type]
    ELSE ZeroAction

Row(timestamp, type, asset, quantity, spot) ==
    [Timestamp |-> timestamp, Type |-> type, Asset |-> asset,
     Quantity |-> quantity, Spot |-> spot]

\* the Transaction ReadStandardFile builds from a row
ReadRow(record) ==
    Transaction(record.Timestamp, LookupAction(record.Type), record.Asset,
                record.Quantity, record.Spot)

\* the types of Coinbase rows: the keys of the map and two that are not
RowTypes == DOMAIN TransactionTypeToAction \cup {"Receive", ""}

Rows ==
    { Row(d, type, Asset0, q, s) :
        d \in Dates, type \in RowTypes, q \in TxQtys, s \in TxSpots }

\* a row is read and its Transaction replayed in the Account
ReadRowCall ==
    \E record \in Rows :
        LET t == ReadRow(record)
            r == ProcessTransaction(Holdings, t)
        IN  /\ pt = NoPt
            /\ HeldLots(r.Holdings) <= MaxHeld
            /\ Holdings' = r.Holdings
            /\ pt' = [op |-> "ReadRow", type |-> record.Type, t |-> t,
                      pre |-> Holdings, err |-> r.err, sales |-> r.sales]
            /\ UNCHANGED lotVars
            /\ UNCHANGED cliVars

NextParser == ReadRowCall \/ ReturnPt

SpecParser == Init /\ [][NextParser]_vars

\* ------------------------------------ state machine: the root driver
\* The program of main.go, the driver at the root of the repository, with
\* its own Lot, LotHistory, AssetHolding and Account.  Its replay goroutine
\* sends the Sale of a sell and the transactions that fail on the two
\* unbuffered channels and closes both after its loop; main ranges over
\* sales and only then over badTransactions.
RootLot(quantity, spot) == [Quantity |-> quantity, Spot |-> spot]

RootToLot(t) == RootLot(t.Quantity, t.Spot)

NewAssetHolding == [Lots |-> <<>>]

RECURSIVE SumSpot(_)
SumSpot(lots) == IF lots = <<>> THEN 0 ELSE lots[1].Spot + SumSpot(Tail(lots))

HoldingQuantity(h) == SumQuantity(h.Lots)

\* AssetHolding.AvgCost where something is held: the spots summed, divided
\* by the quantity; with nothing held Div panics on the zero divisor
HoldingAvgCost(h) == DecimalDiv(SumSpot(h.Lots), SumQuantity(h.Lots))

\* LotHistory.sell from the state of its loop: the lots left, the error
\* and the total cost returned
RECURSIVE sellLoop(_, _, _)
sellLoop(lots, remaining, totalCost) ==
    IF lots = <<>>
    THEN [Lots |-> lots, err |-> NoMoreLotsErr, cost |-> 0]
    ELSE LET lot == lots[1]
             it == IF remaining < lot.Quantity
                   THEN [Lots |-> [lots EXCEPT ![1].Quantity = @ - remaining],
                         remaining |-> 0,
                         cost |-> totalCost + remaining * lot.Spot]
                   ELSE [Lots |-> Tail(lots),
                         remaining |-> remaining - LotTotalCost(lot),
                         cost |-> totalCost + LotTotalCost(lot)]
         IN  IF it.remaining > 0
             THEN sellLoop(it.Lots, it.remaining, it.cost)
             ELSE [Lots |-> it.Lots, err |-> NoErr, cost |-> it.cost]

sell(h, quantity) == sellLoop(h.Lots, quantity, 0)

RootSale(asset, timestamp, quantity, avgCost, fifoCost, proceeds) ==
    [Asset |-> asset, Timestamp |-> timestamp, Quantity |-> quantity,
     AvgCost |-> avgCost, FifoCost |-> fifoCost, Proceeds |-> proceeds]

\* result of processTransaction: the Holdings afterwards, the error, the
\* Sale returned (none is the nil Sale) and whether the call panicked
processTransaction(holdings, t) ==
    LET holding == IF t.Asset \in DOMAIN holdings THEN holdings[t.Asset]
                   ELSE NewAssetHolding
        put(h) == [asset \in DOMAIN holdings \cup {t.Asset} |->
                     IF asset = t.Asset THEN h ELSE holdings[asset]]
        none == [Holdings |-> put(holding), err |-> NoErr, sale |-> <<>>,
                 panic |-> FALSE]
    IN  IF t.Action = BUY
        THEN [none EXCEPT
                !.Holdings = put([holding EXCEPT
                                    !.Lots = Append(@, RootToLot(t))])]
        ELSE IF t.Action = SELL
        THEN IF HoldingQuantity(holding) = 0
             THEN [none EXCEPT !.panic = TRUE]
             ELSE LET r == sell(holding, t.Quantity)
                  IN  IF r.err # NoErr
                      THEN [none EXCEPT
                              !.Holdings = put([holding EXCEPT !.Lots = r.Lots]),
                              !.err = r.err]
                      ELSE [none EXCEPT
                              !.Holdings = put([holding EXCEPT !.Lots = r.Lots]),
                              !.sale = <<RootSale(t.Asset, t.Timestamp,
                                                  t.Quantity,
                                                  HoldingAvgCost(holding),
                                                  r.cost,
                                                  t.Quantity * t.Spot)>>]
        ELSE none

\* the replay goroutine takes the next transaction and runs
\* processTransaction; after the last one it goes on to its closes.  A
\* panic ends the program.
RootReplayRange ==
    /\ replay.pc = "range"
    /\ mainLoop.pc # "exited"
    /\ IF replay.i > Len(transactions)
       THEN /\ replay' = [replay EXCEPT !.pc = "closeSales"]
            /\ UNCHANGED <<Holdings, output>>
       ELSE LET r == processTransaction(Holdings, transactions[replay.i])
                seen == [output EXCEPT !.processed = Append(@, replay.i)]
            IN  /\ Holdings' = r.Holdings
                /\ IF r.panic
                   THEN /\ replay' = [replay EXCEPT !.pc = "panic"]
                        /\ output' = seen
                   ELSE IF r.err # NoErr
                   THEN /\ replay' = [replay EXCEPT !.pc = "sendBad"]
                        /\ output' = [seen EXCEPT
                                         !.failed = Append(@, replay.i)]
                   ELSE IF r.sale # <<>>
                   THEN /\ replay' = [replay EXCEPT !.pc = "sendSale",
                                          !.sale = r.sale[1]]
                        /\ output' = [seen EXCEPT
                                         !.produced = Append(@, r.sale[1])]
                   ELSE /\ replay' = AfterGood(replay)
                        /\ output' = seen
    /\ UNCHANGED <<lotVars, pt, transactions, reporter, mainLoop, closed>>

\* sales <- sale meets main's receive in its first range loop
RootSendSale ==
    /\ replay.pc = "sendSale"
    /\ mainLoop.pc = "recv"
    /\ mainLoop' = [pc |-> "print", s |-> replay.sale]
    /\ output' = [output EXCEPT !.sent = Append(@, replay.sale)]
    /\ replay' = AfterGood(replay)
    /\ UNCHANGED <<lotVars, accountVars, transactions, reporter, closed>>

\* after the loop: close(sales) ...
RootCloseSales ==
    /\ replay.pc = "closeSales"
    /\ mainLoop.pc # "exited"
    /\ closed' = [closed EXCEPT !.sales = TRUE]
    /\ replay' = [replay EXCEPT !.pc = "closeBad"]
    /\ UNCHANGED <<lotVars, accountVars, transactions, reporter, mainLoop, output>>

\* ... then close(badTransactions)
RootCloseBad ==
    /\ replay.pc = "closeBad"
    /\ mainLoop.pc # "exited"
    /\ closed' = [closed EXCEPT !.badTransactions = TRUE]
    /\ replay' = [replay EXCEPT !.pc = "done"]
    /\ UNCHANGED <<lotVars, accountVars, transactions, reporter, mainLoop, output>>

\* main prints the Sale it received
RootMainPrint ==
    /\ mainLoop.pc = "print"
    /\ replay.pc # "panic"
    /\ output' = [output EXCEPT !.sales = Append(@, mainLoop.s)]
    /\ mainLoop' = [mainLoop EXCEPT !.pc = "recv"]
    /\ UNCHANGED <<lotVars, accountVars, transactions, replay, reporter, closed>>

\* its first range loop ends on the closed sales channel
RootMainEndSales ==
    /\ mainLoop.pc = "recv"
    /\ replay.pc # "panic"
    /\ closed.sales
    /\ mainLoop' = [mainLoop EXCEPT !.pc = "rangeBad"]
    /\ UNCHANGED <<lotVars, accountVars, transactions, replay, reporter, closed, output>>

\* its second range loop: it receives and prints a transaction the replay
\* goroutine is sending, or ends on the closed channel
RootMainRangeBad ==
    /\ mainLoop.pc = "rangeBad"
    /\ replay.pc # "panic"
    /\ IF replay.pc = "sendBad"
       THEN /\ output' = [output EXCEPT !.errors = Append(@, replay.i)]
            /\ replay' = AfterBad(replay)
            /\ UNCHANGED mainLoop
       ELSE /\ closed.badTransactions
            /\ mainLoop' = [mainLoop EXCEPT !.pc = "report"]
            /\ UNCHANGED <<replay, output>>
    /\ UNCHANGED <<lotVars, accountVars, transactions, reporter, closed>>

\* the quantity held of every asset, as the root Report lists it
RootReport(holdings) ==
    [asset \in DOMAIN holdings |-> HoldingQuantity(holdings[asset])]

\* main prints the Report and returns
RootMainReport ==
    /\ mainLoop.pc = "report"
    /\ output' = [output EXCEPT !.report = RootReport(Holdings)]
    /\ mainLoop' = [mainLoop EXCEPT !.pc = "exited"]
    /\ UNCHANGED <<lotVars, accountVars, transactions, replay, reporter, closed>>

NextRoot ==
    \/ RootReplayRange \/ RootSendSale \/ RootCloseSales \/ RootCloseBad
    \/ RootMainPrint \/ RootMainEndSales \/ RootMainRangeBad
    \/ RootMainReport

\* the Go scheduler runs a goroutine that can run: some enabled step is
\* eventually taken
SpecRoot == InitCli /\ [][NextRoot]_vars /\ WF_vars(NextRoot)

\* ----------------------------------------------------- claim vocabulary
Min(a, b) == IF a < b THEN a ELSE b

\* the last call was a Sell that passed Sell's input validation
ValidSell == call.op = "Sell" /\ call.quantity > 0 /\ call.spot > 0

\* FIFO reference cost of taking q units from the oldest lots first
RECURSIVE FifoRefCost(_, _)
FifoRefCost(lots, q) ==
    IF lots = <<>> \/ q <= 0 THEN 0
    ELSE LET c == Min(q, lots[1].Quantity)
         IN  c * lots[1].Spot + FifoRefCost(Tail(lots), q - c)

\* smallest number of oldest lots whose quantities sum to at least q
RECURSIVE MinLotsCovering(_, _)
MinLotsCovering(lots, q) ==
    IF lots = <<>> \/ q <= 0 THEN 0
    ELSE 1 + MinLotsCovering(Tail(lots), q - lots[1].Quantity)

RECURSIVE SumFifoCost(_)
SumFifoCost(sales) ==
    IF sales = <<>> THEN 0 ELSE sales[1].FifoCost + SumFifoCost(Tail(sales))

RECURSIVE SumSaleQuantity(_)
SumSaleQuantity(sales) ==
    IF sales = <<>> THEN 0
    ELSE sales[1].Quantity + SumSaleQuantity(Tail(sales))

RECURSIVE SumProceeds(_)
SumProceeds(sales) ==
    IF sales = <<>> THEN 0 ELSE sales[1].Proceeds + SumProceeds(Tail(sales))

\* number of lots the last call removed from the head of the queue
Popped == Len(call.pre.Lots) - Len(hist.Lots)

\* units the last call took from the i-th lot of the queue it was made on
Taken(i) ==
    call.pre.Lots[i].Quantity
        - (IF i > Popped THEN hist.Lots[i - Popped].Quantity ELSE 0)

\* ------------------------------------------------------------- claims

\* C1: for a Sell of q <= Quantity(), the FifoCost of the emitted Sales sums
\* to the FIFO reference cost of q units taken from the oldest lots first.
C1_FifoCostSum ==
    (ValidSell /\ call.quantity <= Quantity(call.pre))
        => SumFifoCost(call.sales)
               = FifoRefCost(call.pre.Lots, call.quantity)

\* C2: a successful Sell of q emits exactly k Sales, k the smallest number
\* of oldest lots whose quantities sum to at least q.
C2_SaleCount ==
    (ValidSell /\ call.err = NoErr /\ call.quantity <= Quantity(call.pre))
        => Len(call.sales) = MinLotsCovering(call.pre.Lots, call.quantity)

\* C3: for a Sell of q <= Quantity(), each Sale's Quantity is the number of
\* units taken from its lot, and the Quantity fields sum to q.
C3_SaleQuantities ==
    (ValidSell /\ call.quantity <= Quantity(call.pre))
        => /\ \A i \in 1..Len(call.sales) :
                call.sales[i].Quantity = Taken(i)
           /\ SumSaleQuantity(call.sales) = call.quantity

\* C4: each Sale's Proceeds is (units taken from its lot) * spot, and the
\* Proceeds of the Sales of a Sell of q <= Quantity() sum to q * spot.
C4_Proceeds ==
    (ValidSell /\ call.quantity <= Quantity(call.pre))
        => /\ \A i \in 1..Len(call.sales) :
                call.sales[i].Proceeds = Taken(i) * call.spot
           /\ SumProceeds(call.sales) = call.quantity * call.spot

\* C5: a Sell of exactly Quantity() succeeds and leaves no lots; a
\* successful Sell of q lowers Quantity() by exactly q.
C5_SellLowersQuantity ==
    /\ (ValidSell /\ call.quantity = Quantity(call.pre))
           => (call.err = NoErr /\ hist.Lots = <<>> /\ Quantity(hist) = 0)
    /\ (ValidSell /\ call.err = NoErr)
           => Quantity(hist) = Quantity(call.pre) - call.quantity

\* C6: a Sell of q strictly less than the head lot's quantity reduces the
\* head lot by exactly q, keeps it at the head, emits exactly one Sale and
\* leaves every later lot and the order of lots unchanged.
PartialSell ==
    /\ ValidSell
    /\ call.pre.Lots # <<>>
    /\ call.quantity < call.pre.Lots[1].Quantity

C6_PartialSell ==
    PartialSell
        => /\ Len(hist.Lots) = Len(call.pre.Lots)
           /\ hist.Lots[1] = [call.pre.Lots[1] EXCEPT
                                  !.Quantity = @ - call.quantity]
           /\ \A i \in 2..Len(call.pre.Lots) :
                hist.Lots[i] = call.pre.Lots[i]
           /\ Len(call.sales) = 1
           /\ call.err = NoErr

C6_Witness ==
    /\ PartialSell
    /\ Len(call.pre.Lots) >= 2

\* C7: a Sell of more than Quantity() returns the insufficient-lots error.
C7_Oversell ==
    (ValidSell /\ call.quantity > Quantity(call.pre))
        => call.err = NoMoreLotsErr

\* C8: a Sell with positive quantity and spot on a LotHistory with no lots
\* returns an error, sends no Sale and leaves the queue empty.
C8_SellEmpty ==
    (ValidSell /\ call.pre.Lots = <<>>)
        => /\ call.err # NoErr
           /\ call.sales = <<>>
           /\ hist.Lots = <<>>

C8_Witness ==
    /\ ValidSell
    /\ call.pre.Lots = <<>>
    /\ call.err = NoMoreLotsErr

\* C9: a Buy dated before the last lot that was appended to the queue
\* returns an error and leaves the queue unchanged.
C9_OutOfOrderBuy ==
    (call.op = "Buy" /\ call.preLast # 0 /\ call.date < call.preLast)
        => (call.err # NoErr /\ hist = call.pre)

\* C10: Buy with Quantity <= 0 returns the negative-quantity error, Buy
\* with Quantity > 0 and Spot <= 0 returns the negative-spot error, and in
\* both cases the queue is unchanged.
C10_BuyInvalid ==
    /\ (call.op = "Buy" /\ call.quantity <= 0)
           => (call.err = NegativeQuantityErr /\ hist = call.pre)
    /\ (call.op = "Buy" /\ call.quantity > 0 /\ call.spot <= 0)
           => (call.err = NegativeSpotErr /\ hist = call.pre)

C10_Witness ==
    /\ call.op = "Buy"
    /\ call.quantity > 0
    /\ call.spot <= 0
    /\ call.err = NegativeSpotErr
    /\ call.pre.Lots # <<>>

\* C11: Sell with quantity <= 0 or spot <= 0 returns an error, sends no Sale
\* and leaves the queue unchanged, whatever lots it holds.
InvalidSell == call.op = "Sell" /\ (call.quantity <= 0 \/ call.spot <= 0)

C11_SellInvalid ==
    InvalidSell
        => /\ call.err # NoErr
           /\ call.sales = <<>>
           /\ hist = call.pre

C11_Witness ==
    /\ InvalidSell
    /\ call.quantity > 0
    /\ call.spot = 0
    /\ Len(call.pre.Lots) = MaxLots

\* sum of Quantity * Spot over the first k lots
RECURSIVE CostOfFirst(_, _)
CostOfFirst(lots, k) ==
    IF k = 0 THEN 0
    ELSE lots[k].Quantity * lots[k].Spot + CostOfFirst(lots, k - 1)

\* the lots held just before the i-th lot of the queue was consumed or
\* reduced by the last call: the lots before it have been removed
HeldBefore(i) ==
    LotHistory(call.pre.Asset,
               SubSeq(call.pre.Lots, i, Len(call.pre.Lots)))

\* C13: each Sale's AvgCost is (units taken from its lot) * (AvgCost() of the
\* queue as held immediately before that lot is consumed or reduced).
C13_SaleAvgCost ==
    ValidSell
        => \A i \in 1..Len(call.sales) :
               call.sales[i].AvgCost = Taken(i) * AvgCost(HeldBefore(i))

C13_Witness ==
    /\ ValidSell
    /\ Len(call.sales) = 2
    /\ call.pre.Lots[1].Spot # call.pre.Lots[2].Spot
    /\ call.err = NoErr

\* C14: AvgCost() is zero on a LotHistory with no lots, and P on a queue
\* holding the single lot N @ P.
C14_AvgCostEdges ==
    call.op = "Aggregate"
        => /\ (Len(hist.Lots) = 0 => call.agg.AvgCost = 0)
           /\ (Len(hist.Lots) = 1
                  => call.agg.AvgCost = hist.Lots[1].Spot * DivScale)

C14_Witness ==
    /\ call.op = "Aggregate"
    /\ Len(hist.Lots) = 1
    /\ hist.Lots[1].Quantity > 1
    /\ hist.Lots[1].Spot > 1

Abs(x) == IF x < 0 THEN -x ELSE x

\* C15 as stated: TotalCost() is the sum of Quantity * Spot over the lots,
\* AvgCost() * Quantity() equals TotalCost() on a non-empty queue, and the
\* aggregations leave the queue as it was.
C15_AvgTimesQuantity ==
    call.op = "Aggregate"
        => /\ call.agg.TotalCost = CostOfFirst(hist.Lots, Len(hist.Lots))
           /\ (hist.Lots # <<>>
                  => call.agg.AvgCost * call.agg.Quantity
                         = call.agg.TotalCost * DivScale)
           /\ hist = call.pre

\* C15 amended: AvgCost() is TotalCost() / Quantity() rounded to
\* DivisionPrecision digits, so AvgCost() * Quantity() is within half a unit
\* of the last digit, times Quantity(), of TotalCost().
C15_AvgTimesQuantityRounded ==
    call.op = "Aggregate"
        => /\ call.agg.TotalCost = CostOfFirst(hist.Lots, Len(hist.Lots))
           /\ (hist.Lots # <<>>
                  => 2 * Abs(call.agg.AvgCost * call.agg.Quantity
                                 - call.agg.TotalCost * DivScale)
                         <= call.agg.Quantity)
           /\ hist = call.pre

C15_Witness ==
    /\ call.op = "Aggregate"
    /\ Len(hist.Lots) = 2
    /\ call.agg.AvgCost * call.agg.Quantity # call.agg.TotalCost * DivScale

RemainingAt(i) == call.quantity - CostOfFirst(call.pre.Lots, i - 1)

C20_DateOrder ==
    \A i \in 1..Len(hist.Lots) : \A j \in i..Len(hist.Lots) :
        hist.Lots[i].PurchaseDate <= hist.Lots[j].PurchaseDate

C20_Witness ==
    /\ call.op = "Buy"
    /\ call.err = OutOfOrderErr
    /\ Len(hist.Lots) = 2
    /\ hist.Lots[1].PurchaseDate < hist.Lots[2].PurchaseDate

\* C12: a ProcessTransaction that returns an error leaves the Account as it
\* was: the same assets in Holdings and the same lots in every LotHistory.
C12_FailedTransactionFrame ==
    (pt.op = "ProcessTransaction" /\ pt.err # NoErr)
        => Holdings = pt.pre

\* the Sales of the transactions from the i-th on, each given whole to
\* ProcessTransaction, in order
RECURSIVE SalesFrom(_, _, _)
SalesFrom(holdings, txs, i) ==
    IF i > Len(txs) THEN <<>>
    ELSE LET r == ProcessTransaction(holdings, txs[i])
         IN  r.sales \o SalesFrom(r.Holdings, txs, i + 1)

Upto(n) == [i \in 1..n |-> i]

\* C16: a transaction whose ProcessTransaction returns an error does not
\* stop the replay: the replay goroutine reaches its end, every transaction
\* of the file has then been passed to ProcessTransaction, in order, and
\* main has been handed every Sale the transactions produce, the Sales of
\* the sells after a failing transaction included.
C16_ReplayContinues ==
    /\ [](output.processed = Upto(Len(output.processed)))
    /\ [](replay.pc \in {"closeBad", "closeSales", "done"}
            => /\ Len(output.processed) = Len(transactions)
               /\ output.sent = SalesFrom(NewAccount, transactions, 1))
    /\ <>(replay.pc = "done")

\* a transaction failed, a later sell succeeded and its Sale was delivered
C16_Witness ==
    /\ replay.pc = "done"
    /\ output.failed # <<>>
    /\ \E k \in 1..Len(output.sent) :
          /\ output.sent[k].SaleDate > output.failed[1]
          /\ output.sent[k].SaleDate \notin
                { output.failed[j] : j \in 1..Len(output.failed) }

\* C17: when main has printed the Report and returned, every transaction
\* that failed has been printed by the goroutine reading badTransactions.
C17_ErrorsReportedBeforeExit ==
    mainLoop.pc = "exited" => output.errors = output.failed

\* C21: in every state reached from the empty LotHistory by Buy and Sell
\* calls, every lot of the queue has Quantity > 0 and Spot > 0.
C21_LotsPositive ==
    \A i \in 1..Len(hist.Lots) :
        hist.Lots[i].Quantity > 0 /\ hist.Lots[i].Spot > 0

\* a Sell removed a lot and then reduced the next one, which stays held
C21_Witness ==
    /\ ValidSell
    /\ call.err = NoErr
    /\ Popped >= 1
    /\ hist.Lots # <<>>
    /\ hist.Lots[1].Quantity < call.pre.Lots[Popped + 1].Quantity

\* C22: a successful Buy(l) raises Quantity() by exactly l.Quantity, a
\* failing Buy leaves it unchanged, a Sell never raises it; no lot's
\* Quantity increases and no lot's Spot or PurchaseDate changes while the
\* lot is in the queue.
C22_QuantityChanges ==
    /\ (call.op = "Buy" /\ call.err = NoErr)
          => /\ Quantity(hist) = Quantity(call.pre) + call.quantity
             /\ \A i \in 1..Len(call.pre.Lots) :
                  hist.Lots[i] = call.pre.Lots[i]
    /\ (call.op = "Buy" /\ call.err # NoErr)
          => /\ Quantity(hist) = Quantity(call.pre)
             /\ hist.Lots = call.pre.Lots
    /\ call.op = "Sell"
          => /\ Quantity(hist) <= Quantity(call.pre)
             /\ Popped >= 0
             /\ \A i \in 1..Len(hist.Lots) :
                  /\ hist.Lots[i].Quantity <= call.pre.Lots[i + Popped].Quantity
                  /\ hist.Lots[i].Spot = call.pre.Lots[i + Popped].Spot
                  /\ hist.Lots[i].PurchaseDate
                        = call.pre.Lots[i + Popped].PurchaseDate

\* a Sell lowered the quantity held and left a reduced lot and a whole lot
C22_Witness ==
    /\ ValidSell
    /\ Len(hist.Lots) >= 2
    /\ Quantity(hist) < Quantity(call.pre)

\* the last call was a Buy of a valid lot dated not before the tail lot
InOrderBuy ==
    /\ call.op = "Buy"
    /\ call.quantity > 0
    /\ call.spot > 0
    /\ call.pre.Lots # <<>> => call.date >= tail(call.pre).PurchaseDate

\* C23: a Buy with Quantity > 0, Spot > 0 and a PurchaseDate not before the
\* tail lot's (an equal date is accepted) succeeds, puts the lot at the tail
\* and leaves the lots held before and their order unchanged.
C23_BuyAppends ==
    InOrderBuy
        => /\ call.err = NoErr
           /\ hist.Lots = Append(call.pre.Lots,
                                 Lot(call.date, call.quantity, call.spot))

\* a Buy dated the same as the tail lot
C23_Witness ==
    /\ InOrderBuy
    /\ call.pre.Lots # <<>>
    /\ call.date = tail(call.pre).PurchaseDate
    /\ Len(hist.Lots) = Len(call.pre.Lots) + 1

\* C24: the Sales of one Sell come in head-to-tail lot order: the i-th Sale
\* has the PurchaseDate of the i-th lot of the queue before the call and the
\* SaleDate of the Sell, so PurchaseDates never decrease from one Sale to
\* the next and the first Sale is taken from the head lot.
C24_SalesInLotOrder ==
    ValidSell
        => /\ Len(call.sales) <= Len(call.pre.Lots)
           /\ \A i \in 1..Len(call.sales) :
                /\ call.sales[i].PurchaseDate = call.pre.Lots[i].PurchaseDate
                /\ call.sales[i].SaleDate = call.date
           /\ \A i \in 1..Len(call.sales) - 1 :
                call.sales[i].PurchaseDate <= call.sales[i + 1].PurchaseDate

\* a Sell that took from two lots bought on different dates
C24_Witness ==
    /\ ValidSell
    /\ Len(call.sales) >= 2
    /\ call.sales[1].PurchaseDate < call.sales[2].PurchaseDate

\* C29: when Sell returns the insufficient-lots error the queue holds no
\* lot and one Sale was sent for every lot the queue held before the call.
C29_FailedSellConsumesAll ==
    (call.op = "Sell" /\ call.err = NoMoreLotsErr)
        => /\ hist.Lots = <<>>
           /\ Len(call.sales) = Len(call.pre.Lots)
           /\ \A i \in 1..Len(call.sales) :
                /\ call.sales[i].PurchaseDate = call.pre.Lots[i].PurchaseDate
                /\ call.sales[i].FifoCost = LotTotalCost(call.pre.Lots[i])

\* a failing Sell on a queue of two lots
C29_Witness ==
    /\ call.op = "Sell"
    /\ call.err = NoMoreLotsErr
    /\ Len(call.pre.Lots) >= 2
    /\ Len(call.sales) >= 2

\* C30: every Sale sent by Sell(q, spot, date) has 0 < Quantity <= q, and
\* remaining never becomes negative.
C30_SaleQuantityBounds ==
    ValidSell
        => /\ call.remaining >= 0
           /\ \A i \in 1..Len(call.sales) :
                /\ 0 < call.sales[i].Quantity
                /\ call.sales[i].Quantity <= call.quantity

\* the Holdings map cut down to one asset
Only(holdings, asset) ==
    [a \in DOMAIN holdings \cap {asset} |-> holdings[a]]

\* the last call was ProcessTransaction
Processed == pt.op = "ProcessTransaction"

\* C25: ProcessTransaction of a transaction on asset A leaves the
\* LotHistory of every other asset as it was, a BUY sends no Sale, and what
\* the call does to A's queue, the error it returns and the Sales it sends
\* are those of the same call on an Account holding A alone; so after any
\* sequence of transactions each asset's queue is the one its own
\* transactions alone produce.
C25_AssetsIndependent ==
    Processed
        => LET A == pt.t.Asset
               alone == ProcessTransaction(Only(pt.pre, A), pt.t)
           IN  /\ DOMAIN Holdings \ {A} = DOMAIN pt.pre \ {A}
               /\ \A B \in DOMAIN pt.pre \ {A} : Holdings[B] = pt.pre[B]
               /\ pt.t.Action = BUY => pt.sales = <<>>
               /\ Holdings[A] = alone.Holdings[A]
               /\ pt.err = alone.err
               /\ pt.sales = alone.sales

\* a sell on one asset while the other asset holds a lot
C25_Witness ==
    /\ Processed
    /\ pt.t.Action = SELL
    /\ pt.sales # <<>>
    /\ \E B \in DOMAIN pt.pre \ {pt.t.Asset} : pt.pre[B].Lots # <<>>

\* C26: the assets of Holdings only grow: ProcessTransaction adds the
\* asset of its transaction when it is new and removes none, and
\* an asset whose lots were all sold stays in Holdings with no lot and a
\* Quantity() of 0, which Report lists.
C26_HoldingsGrow ==
    /\ Processed => DOMAIN Holdings = DOMAIN pt.pre \cup {pt.t.Asset}
    /\ \A asset \in DOMAIN Holdings :
          Holdings[asset].Lots = <<>>
              => /\ Quantity(Holdings[asset]) = 0
                 /\ Report(Holdings)[asset] = 0

\* a sell that took the last lot of its asset
C26_Witness ==
    /\ Processed
    /\ pt.t.Action = SELL
    /\ pt.t.Asset \in DOMAIN pt.pre
    /\ pt.pre[pt.t.Asset].Lots # <<>>
    /\ pt.t.Asset \in DOMAIN Holdings
    /\ Holdings[pt.t.Asset].Lots = <<>>

\* Sales built by Sell that main has not received yet
Pending == Len(output.produced) - Len(output.sent)

IsPrefix(a, b) == Len(a) <= Len(b) /\ a = SubSeq(b, 1, Len(a))

\* C27: the replay never runs ahead of main: at most one Sale is built and
\* not yet received, and while one is, Sell takes nothing from any lot, no
\* further Sale is built and no further transaction is started.
C27_ReplayWaits ==
    /\ [](Pending \in {0, 1} /\ IsPrefix(output.sent, output.produced))
    /\ [][Pending = 1 => /\ Holdings' = Holdings
                         /\ output'.produced = output.produced
                         /\ output'.processed = output.processed]_vars

\* a Sale waits for main, which is still printing the Sale before it
C27_Witness ==
    /\ Pending = 1
    /\ replay.pc = "sendSale"
    /\ mainLoop.pc = "print"
    /\ output.sent # <<>>

\* C28: for every transaction list the pipeline ends under fair scheduling:
\* main returns, and then both channels are closed, main has printed every
\* Sale built, once and in the order built, and the Report; no send is
\* tried on a closed channel.
C28_PipelineTerminates ==
    /\ <>(mainLoop.pc = "exited")
    /\ [](mainLoop.pc = "exited"
            => /\ replay.pc = "done"
               /\ closed.sales /\ closed.badTransactions
               /\ output.sales = output.produced
               /\ Len(output.processed) = Len(transactions)
               /\ output.report = Report(Holdings))
    /\ [](IsPrefix(output.sales, output.sent))
    /\ [](replay.pc = "sendSale" => ~closed.sales)
    /\ [](replay.pc = "sendBad" => ~closed.badTransactions)

\* the program ended on a list with a failing transaction and two Sales
C28_Witness ==
    /\ mainLoop.pc = "exited"
    /\ output.failed # <<>>
    /\ Len(output.sales) >= 2

\* passes of the loop the last Sell made: one for each Sale sent, and the
\* pass that found no lot when it failed
Iterations ==
    Len(call.sales) + (IF call.err = NoMoreLotsErr THEN 1 ELSE 0)

\* C31: a Sell on a queue of n lots ends after at most n + 1 passes of its
\* loop and sends at most n Sales: every pass that sends a Sale removes one
\* lot, except a last one that sets remaining to zero.
C31_SellIterationBound ==
    ValidSell
        => /\ Len(call.sales) <= Len(call.pre.Lots)
           /\ Iterations <= Len(call.pre.Lots) + 1
           /\ Popped >= Len(call.sales) - 1
           /\ Popped <= Len(call.sales)
           /\ (call.sales # <<>> /\ Popped = Len(call.sales) - 1)
                 => (call.remaining = 0 /\ call.err = NoErr)

\* a Sell that sent a Sale for each of two lots and ended on the last
C31_Witness ==
    /\ ValidSell
    /\ call.err = NoErr
    /\ Len(call.pre.Lots) >= 2
    /\ Len(call.sales) = Len(call.pre.Lots)

\* C32: in the root driver, whenever the replay goroutine sends a failing
\* transaction on badTransactions, the send is received and main goes on to
\* print the account report and return.
C32_RootDriverTerminates ==
    (replay.pc = "sendBad") ~> (mainLoop.pc = "exited")

\* the last row read had a type that is no key of TransactionTypeToAction
UnknownRow ==
    pt.op = "ReadRow" /\ pt.type \notin DOMAIN TransactionTypeToAction

\* C33: a row whose type is not a key of TransactionTypeToAction becomes a
\* Transaction with Action BUY, and ProcessTransaction treats it as a
\* purchase: it sends no Sale, and where Buy accepts the quantity, spot and
\* date the lot is appended to the asset's queue, raising the quantity
\* held by the row's quantity.
C33_UnknownTypeIsBuy ==
    UnknownRow
        => LET A == pt.t.Asset
               before == HoldingOf(pt.pre, A)
               lot == Lot(pt.t.Timestamp, pt.t.Quantity, pt.t.Spot)
               accepted == /\ lot.Quantity > 0
                           /\ lot.Spot > 0
                           /\ before.Lots # <<>>
                                 => lot.PurchaseDate >= tail(before).PurchaseDate
           IN  /\ pt.t.Action = BUY
               /\ pt.sales = <<>>
               /\ accepted
                     => /\ pt.err = NoErr
                        /\ Holdings[A].Lots = Append(before.Lots, lot)
                        /\ Quantity(Holdings[A])
                              = Quantity(before) + pt.t.Quantity
               /\ ~accepted
                     => /\ pt.err # NoErr
                        /\ Holdings[A].Lots = before.Lots

\* a row of an unknown type was added to a holding that had a lot
C33_Witness ==
    /\ UnknownRow
    /\ pt.err = NoErr
    /\ pt.t.Asset \in DOMAIN pt.pre
    /\ pt.pre[pt.t.Asset].Lots # <<>>
    /\ Len(Holdings[pt.t.Asset].Lots) = Len(pt.pre[pt.t.Asset].Lots) + 1

====
